---- MODULE Spec2Model ----
(***************************************************************************)
(* A model of the deadigations migration tool.                             *)
(*                                                                         *)
(* The repository holds three versions of the package:                     *)
(*   "tx"   src/deadigations.go lines 1-253: global registry, singleton,   *)
(*          no sort, commands -up -down -create -create-tx;                *)
(*   "sort" src/deadigations.go lines 255-430: global registry, singleton, *)
(*          stable sort before each engine call, no -create-tx;            *)
(*   "inj"  src/unnamed/part_000: registry passed to NewMigrationTool,     *)
(*          which opens a connection and dispatches at once; stable sort.  *)
(* A behaviour is one process built from one of them (variable variant).   *)
(*                                                                         *)
(* Strings are sequences of one-character strings, so that replacing,      *)
(* comparing and formatting are computed and not assumed.                  *)
(***************************************************************************)
EXTENDS Integers, Sequences, FiniteSets, TLC

VARIABLES
    variant,               \* which version of the package the process is built from
    client,                \* what the importing program does: run migrations or scaffold files
    registeredMigrations,  \* the registry slice (global, or the caller's slice in "inj")
    regLog,                \* history: the IDs registered, in registration order
    migrated,              \* history: MigrateUp or MigrateDown has been called
    once,                  \* sync.Once has run
    instance,              \* the singleton pointer: <<>> (nil) or <<tool>>
    dbOpens,               \* history: the connection strings gorm.Open was called with
    dirExists,             \* the migrations directory exists
    files,                 \* the files of the migrations directory: filename -> content
    now,                   \* the clock, in seconds after StartTime
    proc,                  \* "running", or "exited" after log.Fatal (os.Exit(1))
    last                   \* the last call of the package's API and its outcome

vars == <<variant, client, registeredMigrations, regLog, migrated, once, instance, dbOpens,
          dirExists, files, now, proc, last>>

----------------------------------------------------------------------------
(* Bounds *)

\* Registrations made by one process.
MaxRegistered == 3
\* Length of the registry a caller of the "inj" version passes in.
MaxInjected == 2
\* Calls of the "inj" version's NewMigrationTool by one process.
MaxOpens == 2
\* Seconds that pass while the process runs.
MaxClock == 1

----------------------------------------------------------------------------
(* Values *)

Variants == {"tx", "sort", "inj"}

Nil == "nil"

Digit == <<"0", "1", "2", "3", "4", "5", "6", "7", "8", "9">>

\* Byte value of a character, for Go's bytewise string comparison.
Ord(c) ==
    CASE c = " " -> 32 [] c = "-" -> 45 [] c = "/" -> 47
      [] c = "0" -> 48 [] c = "1" -> 49 [] c = "2" -> 50 [] c = "3" -> 51
      [] c = "4" -> 52 [] c = "5" -> 53 [] c = "6" -> 54 [] c = "7" -> 55
      [] c = "8" -> 56 [] c = "9" -> 57
      [] c = "_" -> 95 [] c = "a" -> 97 [] c = "b" -> 98

\* Go's s < t on strings: lexicographic by bytes, a proper prefix is smaller.
RECURSIVE StrLess(_, _)
StrLess(s, t) ==
    IF t = <<>> THEN FALSE
    ELSE IF s = <<>> THEN TRUE
    ELSE IF Ord(Head(s)) # Ord(Head(t)) THEN Ord(Head(s)) < Ord(Head(t))
    ELSE StrLess(Tail(s), Tail(t))

\* The migration IDs the callers register: "", "10" and "2" (as strings "10" < "2").
IDs == {<<>>, <<"1", "0">>, <<"2">>}

\* The connection strings.
DSNs == {<<"d", "1">>, <<"d", "2">>}

\* log.Fatal / log.Fatalf: the message and the error formatted into it.
Fatal(msg, err) == [msg |-> msg, err |-> err]

\* The call returned: the process was not ended.
NoFatal == [msg |-> "", err |-> Nil]

\* What the engine's Migrate / RollbackLast returns.
EngineResults == {Nil, "engineErr1", "engineErr2"}

----------------------------------------------------------------------------
(* The registry and the external engine *)

\* A registered *gormigrate.Migration: its ID and the identity of the allocation
\* (ptr = the number of the registration that made it).
Descriptor(id, ptr) == [ID |-> id, ptr |-> ptr]

\* Mutant: a registration whose ID is already registered is dropped.
RegisterMigration_unique(regs, id, ptr) ==
    IF \E i \in DOMAIN regs : regs[i].ID = id THEN regs
    ELSE Append(regs, [ID |-> id, ptr |-> ptr])

\* registeredMigrations = append(registeredMigrations, gormMigration)
RegisterMigration(regs, id, ptr) == Append(regs, Descriptor(id, ptr))

RegisterMigration_sort(regs, id, ptr) == Append(regs, Descriptor(id, ptr))

\* The comparison closures handed to sort.SliceStable, by name:
\* "ascending" is [i].ID < [j].ID, "descending" is [i].ID > [j].ID.
Less(order, a, b) ==
    IF order = "ascending" THEN StrLess(a.ID, b.ID) ELSE StrLess(b.ID, a.ID)

\* One pass of the insertion sort: x moves left while it is less than its neighbour.
RECURSIVE InsertLeft(_, _, _)
InsertLeft(s, x, order) ==
    IF s = <<>> THEN <<x>>
    ELSE IF Less(order, x, s[Len(s)])
         THEN Append(InsertLeft(SubSeq(s, 1, Len(s) - 1), x, order), s[Len(s)])
         ELSE Append(s, x)

\* A sort that keeps one descriptor per ID, as a sort into a set of versions
\* would: not what the code does.
RECURSIVE SliceStable_unique(_, _)
SliceStable_unique(s, order) ==
    IF s = <<>> THEN <<>>
    ELSE LET rest == SliceStable_unique(SubSeq(s, 1, Len(s) - 1), order)
             x == s[Len(s)]
         IN  IF \E k \in DOMAIN rest : rest[k].ID = x.ID
             THEN rest
             ELSE InsertLeft(rest, x, order)

\* sort.SliceStable: the insertion sort the library runs on short slices.
RECURSIVE SliceStable(_, _)
SliceStable(s, order) ==
    IF s = <<>> THEN <<>>
    ELSE InsertLeft(SliceStable(SubSeq(s, 1, Len(s) - 1), order), s[Len(s)], order)

\* gormigrate.New(db, options, migrations) followed by one call of the migrator,
\* which returned result.
EngineCall(op, db, migrations, result) ==
    [op |-> op, db |-> db, migrations |-> migrations, result |-> result]

\* The outcome of MigrateUp / MigrateDown: the registry afterwards, the engine
\* calls made, and the error returned.
MigrateOutcome(regs, calls, ret) == [regs |-> regs, calls |-> calls, ret |-> ret]

\* Mutant: the check for an empty registry is missing.
MigrateUp_noEmptyCheck(regs, db, engineResult) ==
    MigrateOutcome(regs, <<EngineCall("Migrate", db, regs, engineResult)>>,
                   IF engineResult # Nil THEN engineResult ELSE Nil)

\* Mutant: the engine's error is dropped.
MigrateDown_swallow(regs, db, engineResult) ==
    IF Len(regs) = 0 THEN MigrateOutcome(regs, <<>>, Nil)
    ELSE MigrateOutcome(regs, <<EngineCall("RollbackLast", db, regs, engineResult)>>, Nil)

\* "tx": no sort.
MigrateUp(regs, db, engineResult) ==
    IF Len(regs) = 0 THEN MigrateOutcome(regs, <<>>, Nil)
    ELSE MigrateOutcome(regs, <<EngineCall("Migrate", db, regs, engineResult)>>,
                        IF engineResult # Nil THEN engineResult ELSE Nil)

MigrateDown(regs, db, engineResult) ==
    IF Len(regs) = 0 THEN MigrateOutcome(regs, <<>>, Nil)
    ELSE MigrateOutcome(regs, <<EngineCall("RollbackLast", db, regs, engineResult)>>,
                        IF engineResult # Nil THEN engineResult ELSE Nil)

\* Mutant: the comparison of MigrateUp is the wrong way round.
MigrateUp_sort_descending(regs, db, engineResult) ==
    IF Len(regs) = 0 THEN MigrateOutcome(regs, <<>>, Nil)
    ELSE LET sorted == SliceStable(regs, "descending")
         IN  MigrateOutcome(sorted, <<EngineCall("Migrate", db, sorted, engineResult)>>,
                            IF engineResult # Nil THEN engineResult ELSE Nil)

\* Mutant: the comparison of MigrateDown is the wrong way round.
MigrateDown_sort_ascending(regs, db, engineResult) ==
    IF Len(regs) = 0 THEN MigrateOutcome(regs, <<>>, Nil)
    ELSE LET sorted == SliceStable(regs, "ascending")
         IN  MigrateOutcome(sorted, <<EngineCall("RollbackLast", db, sorted, engineResult)>>,
                            IF engineResult # Nil THEN engineResult ELSE Nil)

\* "sort": the registry is sorted in place before the engine is built.
MigrateUp_sort(regs, db, engineResult) ==
    IF Len(regs) = 0 THEN MigrateOutcome(regs, <<>>, Nil)
    ELSE LET sorted == SliceStable(regs, "ascending")
         IN  MigrateOutcome(sorted, <<EngineCall("Migrate", db, sorted, engineResult)>>,
                            IF engineResult # Nil THEN engineResult ELSE Nil)

MigrateDown_sort(regs, db, engineResult) ==
    IF Len(regs) = 0 THEN MigrateOutcome(regs, <<>>, Nil)
    ELSE LET sorted == SliceStable(regs, "descending")
         IN  MigrateOutcome(sorted, <<EngineCall("RollbackLast", db, sorted, engineResult)>>,
                            IF engineResult # Nil THEN engineResult ELSE Nil)

\* "inj": the same, on the tool's own slice (which shares the caller's array).
MigrateUp_inj(regs, db, engineResult) ==
    IF Len(regs) = 0 THEN MigrateOutcome(regs, <<>>, Nil)
    ELSE LET sorted == SliceStable(regs, "ascending")
         IN  MigrateOutcome(sorted, <<EngineCall("Migrate", db, sorted, engineResult)>>,
                            IF engineResult # Nil THEN engineResult ELSE Nil)

MigrateDown_inj(regs, db, engineResult) ==
    IF Len(regs) = 0 THEN MigrateOutcome(regs, <<>>, Nil)
    ELSE LET sorted == SliceStable(regs, "descending")
         IN  MigrateOutcome(sorted, <<EngineCall("RollbackLast", db, sorted, engineResult)>>,
                            IF engineResult # Nil THEN engineResult ELSE Nil)

----------------------------------------------------------------------------
(* The clock and the file scaffolder *)

\* The wall clock when the process starts: 2024-08-03 12:59:59.
StartTime == [year |-> 2024, month |-> 8, day |-> 3, hour |-> 12, minute |-> 59, second |-> 59]

\* time.Now() t seconds after the start (within the same day).
TimeAt(t) ==
    LET total == (StartTime.hour * 60 + StartTime.minute) * 60 + StartTime.second + t
    IN  [year |-> StartTime.year, month |-> StartTime.month, day |-> StartTime.day,
         hour |-> total \div 3600, minute |-> (total % 3600) \div 60, second |-> total % 60]

\* n in decimal, zero-padded to at least width digits.
RECURSIVE Pad(_, _)
Pad(n, width) ==
    IF width <= 1 /\ n < 10 THEN <<Digit[n + 1]>>
    ELSE Append(Pad(n \div 10, width - 1), Digit[(n % 10) + 1])

\* time.Time.Format("20060102150405")
Format(tm) ==
    Pad(tm.year, 4) \o Pad(tm.month, 2) \o Pad(tm.day, 2)
        \o Pad(tm.hour, 2) \o Pad(tm.minute, 2) \o Pad(tm.second, 2)

\* strings.Replace(s, old, new, -1) for one-character old and new.
RECURSIVE Replace(_, _, _)
Replace(s, old, new) ==
    IF s = <<>> THEN <<>>
    ELSE <<IF Head(s) = old THEN new ELSE Head(s)>> \o Replace(Tail(s), old, new)

\* strings.Replace(s, old, new, 1): the first occurrence only.
RECURSIVE ReplaceFirst(_, _, _)
ReplaceFirst(s, old, new) ==
    IF s = <<>> THEN <<>>
    ELSE IF Head(s) = old THEN <<new>> \o Tail(s)
    ELSE <<Head(s)>> \o ReplaceFirst(Tail(s), old, new)

\* Mutant: only the first space of the name is replaced.
Filename_firstSpace(timestamp, name) ==
    timestamp \o <<"_">> \o ReplaceFirst(name, " ", "_") \o <<".", "g", "o">>

\* fmt.Sprintf("%s_%s.go", timestamp, strings.Replace(name, " ", "_", -1))
Filename(timestamp, name) ==
    timestamp \o <<"_">> \o Replace(name, " ", "_") \o <<".", "g", "o">>

\* The directory the files are written to.
MigrationsDir(v) == IF v = "tx" THEN "./migrator/migrations" ELSE "./migrations"

\* The names given to the create commands: "a b" and " / ".
Names == {<<"a", " ", "b">>, <<" ", "/", " ">>}

\* What the filesystem does to one scaffolding call: nothing wrong, or MkdirAll,
\* os.Create or WriteString fails.
Faults == {"none", "mkdir", "create", "write"}

\* A file truncated by os.Create and not (wholly) written.
EmptyFile == [template |-> "", ID |-> <<>>]

\* fmt.Sprintf(template, timestamp): the template with its one %s filled in.
Sprintf(template, timestamp) == [template |-> template, ID |-> timestamp]

\* The filename lies in a subdirectory of the migrations directory (which no
\* call creates), so os.Create fails with ENOENT.
InSubdirectory(filename) == \E i \in 1..Len(filename) : filename[i] = "/"

\* f with f[k] = v, k added to the domain when new.
Put(f, k, v) == [x \in DOMAIN f \cup {k} |-> IF x = k THEN v ELSE f[x]]

\* The outcome of a scaffolding call: the directory and its files afterwards, the
\* error returned and the filename targeted.
CreateOutcome(dir, fls, ret, filename) ==
    [dirExists |-> dir, files |-> fls, ret |-> ret, filename |-> filename]

\* "tx": MkdirAll, os.Create (which truncates an existing file), WriteString.
CreateMigrationFile(name, t, dir, fls, fault) ==
    LET timestamp == Format(TimeAt(t))
        filename == Filename(timestamp, name)
    IN  IF fault = "mkdir" THEN CreateOutcome(dir, fls, "mkdirErr", filename)
        ELSE IF fault = "create" THEN CreateOutcome(TRUE, fls, "createErr", filename)
        ELSE IF InSubdirectory(filename) THEN CreateOutcome(TRUE, fls, "ENOENT", filename)
        ELSE IF fault = "write"
             THEN CreateOutcome(TRUE, Put(fls, filename, EmptyFile), "writeErr", filename)
        ELSE CreateOutcome(TRUE, Put(fls, filename, Sprintf("migrationTemplate", timestamp)),
                           Nil, filename)

\* Mutant: the file is opened with O_EXCL, so an existing file is an error.
CreateTransactionMigrationFile_exclusive(name, t, dir, fls, fault) ==
    LET timestamp == Format(TimeAt(t))
        filename == Filename(timestamp, name)
    IN  IF fault = "mkdir" THEN CreateOutcome(dir, fls, "mkdirErr", filename)
        ELSE IF fault = "create" THEN CreateOutcome(TRUE, fls, "createErr", filename)
        ELSE IF InSubdirectory(filename) THEN CreateOutcome(TRUE, fls, "ENOENT", filename)
        ELSE IF filename \in DOMAIN fls THEN CreateOutcome(TRUE, fls, "EEXIST", filename)
        ELSE IF fault = "write"
             THEN CreateOutcome(TRUE, Put(fls, filename, EmptyFile), "writeErr", filename)
        ELSE CreateOutcome(TRUE, Put(fls, filename,
                                     Sprintf("transactionMigrationTemplate", timestamp)),
                           Nil, filename)

\* "tx": the same with the transaction template.
CreateTransactionMigrationFile(name, t, dir, fls, fault) ==
    LET timestamp == Format(TimeAt(t))
        filename == Filename(timestamp, name)
    IN  IF fault = "mkdir" THEN CreateOutcome(dir, fls, "mkdirErr", filename)
        ELSE IF fault = "create" THEN CreateOutcome(TRUE, fls, "createErr", filename)
        ELSE IF InSubdirectory(filename) THEN CreateOutcome(TRUE, fls, "ENOENT", filename)
        ELSE IF fault = "write"
             THEN CreateOutcome(TRUE, Put(fls, filename, EmptyFile), "writeErr", filename)
        ELSE CreateOutcome(TRUE, Put(fls, filename, Sprintf("transactionMigrationTemplate", timestamp)),
                           Nil, filename)

\* "sort"
CreateMigrationFile_sort(name, t, dir, fls, fault) ==
    LET timestamp == Format(TimeAt(t))
        filename == Filename(timestamp, name)
    IN  IF fault = "mkdir" THEN CreateOutcome(dir, fls, "mkdirErr", filename)
        ELSE IF fault = "create" THEN CreateOutcome(TRUE, fls, "createErr", filename)
        ELSE IF InSubdirectory(filename) THEN CreateOutcome(TRUE, fls, "ENOENT", filename)
        ELSE IF fault = "write"
             THEN CreateOutcome(TRUE, Put(fls, filename, EmptyFile), "writeErr", filename)
        ELSE CreateOutcome(TRUE, Put(fls, filename, Sprintf("migrationTemplate", timestamp)),
                           Nil, filename)

\* "inj"
CreateMigrationFile_inj(name, t, dir, fls, fault) ==
    LET timestamp == Format(TimeAt(t))
        filename == Filename(timestamp, name)
    IN  IF fault = "mkdir" THEN CreateOutcome(dir, fls, "mkdirErr", filename)
        ELSE IF fault = "create" THEN CreateOutcome(TRUE, fls, "createErr", filename)
        ELSE IF InSubdirectory(filename) THEN CreateOutcome(TRUE, fls, "ENOENT", filename)
        ELSE IF fault = "write"
             THEN CreateOutcome(TRUE, Put(fls, filename, EmptyFile), "writeErr", filename)
        ELSE CreateOutcome(TRUE, Put(fls, filename, Sprintf("migrationTemplate", timestamp)),
                           Nil, filename)

----------------------------------------------------------------------------
(* The tool instance *)

\* gorm.Open(postgres.Open(dsn), ...): the handle of the conn-th connection opened.
Open(dsn, conn) == [dsn |-> dsn, conn |-> conn]

\* The engine options every version builds the tool with.
Options ==
    [TableName |-> "migrations", IDColumnName |-> "id", IDColumnSize |-> 255,
     UseTransaction |-> TRUE, ValidateUnknownMigrations |-> FALSE]

MigrationTool(db, options) == [db |-> db, options |-> options]

\* The outcome of NewMigrationTool: the sync.Once, the instance and the
\* connections opened afterwards, and the fatal message if the connection failed.
NewOutcome(onceDone, inst, opens, fatal) ==
    [once |-> onceDone, instance |-> inst, dbOpens |-> opens, fatal |-> fatal]

\* Mutant: the sync.Once is missing, every call connects and replaces the instance.
NewMigrationTool_noOnce(dsn, onceDone, inst, opens, connectErr) ==
    IF connectErr # Nil
    THEN NewOutcome(onceDone, inst, Append(opens, dsn),
             Fatal("Failed to connect to the database: %v", connectErr))
    ELSE NewOutcome(TRUE, <<MigrationTool(Open(dsn, Len(opens) + 1), Options)>>,
             Append(opens, dsn), NoFatal)

\* "tx": once.Do opens the connection and sets the instance; the instance is returned.
NewMigrationTool(dsn, onceDone, inst, opens, connectErr) ==
    IF onceDone THEN NewOutcome(onceDone, inst, opens, NoFatal)
    ELSE IF connectErr # Nil
         THEN NewOutcome(onceDone, inst, Append(opens, dsn),
                  Fatal("Failed to connect to the database: %v", connectErr))
         ELSE NewOutcome(TRUE, <<MigrationTool(Open(dsn, Len(opens) + 1), Options)>>,
                  Append(opens, dsn), NoFatal)

\* "sort"
NewMigrationTool_sort(dsn, onceDone, inst, opens, connectErr) ==
    IF onceDone THEN NewOutcome(onceDone, inst, opens, NoFatal)
    ELSE IF connectErr # Nil
         THEN NewOutcome(onceDone, inst, Append(opens, dsn),
                  Fatal("Failed to connect to the database: %v", connectErr))
         ELSE NewOutcome(TRUE, <<MigrationTool(Open(dsn, Len(opens) + 1), Options)>>,
                  Append(opens, dsn), NoFatal)

\* "inj": every call opens a connection and builds a tool of its own, which it
\* keeps to itself (the function returns nothing); the dispatch follows (Run_inj).
NewMigrationTool_inj(dsn, onceDone, inst, opens, connectErr) ==
    IF connectErr # Nil
    THEN NewOutcome(onceDone, inst, Append(opens, dsn),
             Fatal("Failed to connect to the database: %v", connectErr))
    ELSE NewOutcome(onceDone, <<MigrationTool(Open(dsn, Len(opens) + 1), Options)>>,
             Append(opens, dsn), NoFatal)

\* What gorm.Open returns as its error.
ConnectResults == {Nil, "connectErr"}

----------------------------------------------------------------------------
(* The command dispatcher *)

Prog == <<"m">>
CmdUp == <<"-", "u", "p">>
CmdDown == <<"-", "d", "o", "w", "n">>
CmdCreate == <<"-", "c", "r", "e", "a", "t", "e">>
CmdCreateTx == <<"-", "c", "r", "e", "a", "t", "e", "-", "t", "x">>
CmdOther == <<"-", "x">>

\* The argument vectors (os.Args) the two kinds of program are run with.
ArgLists(c) ==
    IF c = "migrator"
    THEN {<<>>, <<Prog>>, <<Prog, CmdUp>>, <<Prog, CmdDown>>, <<Prog, CmdOther>>,
          <<Prog, CmdUp, <<"a">>>>}
    ELSE {<<Prog, c2>> : c2 \in {CmdCreate, CmdCreateTx}}
         \cup {<<Prog, c2, n>> : c2 \in {CmdCreate, CmdCreateTx}, n \in Names}

\* An operation Run dispatched to.
Invoked(op, name) == [op |-> op, name |-> name]

\* The outcome of Run: the state afterwards, the operations it invoked, and the
\* fatal message it ended the process with (NoFatal when it returned).
RunOutcome(regs, calls, dir, fls, invoked, fatal) ==
    [regs |-> regs, calls |-> calls, dirExists |-> dir, files |-> fls,
     invoked |-> invoked, fatal |-> fatal]

\* Mutant: -create-tx runs the plain scaffolder (a case copied and not adapted).
Run_createTxPlain(args, regs, db, dir, fls, t, engineResult, fault) ==
    IF Len(args) > 1 THEN
        CASE args[2] = CmdUp ->
               LET r == MigrateUp(regs, db, engineResult)
               IN  RunOutcome(r.regs, r.calls, dir, fls, <<Invoked("MigrateUp", <<>>)>>,
                       IF r.ret # Nil THEN Fatal("Migration failed: %v", r.ret) ELSE NoFatal)
          [] args[2] = CmdDown ->
               LET r == MigrateDown(regs, db, engineResult)
               IN  RunOutcome(r.regs, r.calls, dir, fls, <<Invoked("MigrateDown", <<>>)>>,
                       IF r.ret # Nil THEN Fatal("Rollback failed: %v", r.ret) ELSE NoFatal)
          [] args[2] = CmdCreate ->
               IF Len(args) < 3
               THEN RunOutcome(regs, <<>>, dir, fls, <<>>,
                        Fatal("Please provide a name for the migration", Nil))
               ELSE LET r == CreateMigrationFile(args[3], t, dir, fls, fault)
                    IN  RunOutcome(regs, <<>>, r.dirExists, r.files,
                            <<Invoked("CreateMigrationFile", args[3])>>,
                            IF r.ret # Nil
                            THEN Fatal("Failed to create migration file: %v", r.ret)
                            ELSE NoFatal)
          [] args[2] = CmdCreateTx ->
               IF Len(args) < 3
               THEN RunOutcome(regs, <<>>, dir, fls, <<>>,
                        Fatal("Please provide a name for the transaction migration", Nil))
               ELSE LET r == CreateMigrationFile(args[3], t, dir, fls, fault)
                    IN  RunOutcome(regs, <<>>, r.dirExists, r.files,
                            <<Invoked("CreateMigrationFile", args[3])>>,
                            IF r.ret # Nil
                            THEN Fatal("Failed to create transaction migration file: %v", r.ret)
                            ELSE NoFatal)
          [] OTHER ->
               RunOutcome(regs, <<>>, dir, fls, <<>>,
                   Fatal("Invalid command. Use -up, -down, -create, or -create-tx", Nil))
    ELSE RunOutcome(regs, <<>>, dir, fls, <<>>, NoFatal)

\* "tx"
Run(args, regs, db, dir, fls, t, engineResult, fault) ==
    IF Len(args) > 1 THEN
        CASE args[2] = CmdUp ->
               LET r == MigrateUp(regs, db, engineResult)
               IN  RunOutcome(r.regs, r.calls, dir, fls, <<Invoked("MigrateUp", <<>>)>>,
                       IF r.ret # Nil THEN Fatal("Migration failed: %v", r.ret) ELSE NoFatal)
          [] args[2] = CmdDown ->
               LET r == MigrateDown(regs, db, engineResult)
               IN  RunOutcome(r.regs, r.calls, dir, fls, <<Invoked("MigrateDown", <<>>)>>,
                       IF r.ret # Nil THEN Fatal("Rollback failed: %v", r.ret) ELSE NoFatal)
          [] args[2] = CmdCreate ->
               IF Len(args) < 3
               THEN RunOutcome(regs, <<>>, dir, fls, <<>>,
                        Fatal("Please provide a name for the migration", Nil))
               ELSE LET r == CreateMigrationFile(args[3], t, dir, fls, fault)
                    IN  RunOutcome(regs, <<>>, r.dirExists, r.files,
                            <<Invoked("CreateMigrationFile", args[3])>>,
                            IF r.ret # Nil
                            THEN Fatal("Failed to create migration file: %v", r.ret)
                            ELSE NoFatal)
          [] args[2] = CmdCreateTx ->
               IF Len(args) < 3
               THEN RunOutcome(regs, <<>>, dir, fls, <<>>,
                        Fatal("Please provide a name for the transaction migration", Nil))
               ELSE LET r == CreateTransactionMigrationFile(args[3], t, dir, fls, fault)
                    IN  RunOutcome(regs, <<>>, r.dirExists, r.files,
                            <<Invoked("CreateTransactionMigrationFile", args[3])>>,
                            IF r.ret # Nil
                            THEN Fatal("Failed to create transaction migration file: %v", r.ret)
                            ELSE NoFatal)
          [] OTHER ->
               RunOutcome(regs, <<>>, dir, fls, <<>>,
                   Fatal("Invalid command. Use -up, -down, -create, or -create-tx", Nil))
    ELSE RunOutcome(regs, <<>>, dir, fls, <<>>, NoFatal)

\* Mutant: the check for a missing name is gone, the name is then empty.
Run_sort_noNameCheck(args, regs, db, dir, fls, t, engineResult, fault) ==
    IF Len(args) > 1 THEN
        CASE args[2] = CmdUp ->
               LET r == MigrateUp_sort(regs, db, engineResult)
               IN  RunOutcome(r.regs, r.calls, dir, fls, <<Invoked("MigrateUp", <<>>)>>,
                       IF r.ret # Nil THEN Fatal("Migration failed: %v", r.ret) ELSE NoFatal)
          [] args[2] = CmdDown ->
               LET r == MigrateDown_sort(regs, db, engineResult)
               IN  RunOutcome(r.regs, r.calls, dir, fls, <<Invoked("MigrateDown", <<>>)>>,
                       IF r.ret # Nil THEN Fatal("Rollback failed: %v", r.ret) ELSE NoFatal)
          [] args[2] = CmdCreate ->
               LET name == IF Len(args) < 3 THEN <<>> ELSE args[3]
                   r == CreateMigrationFile_sort(name, t, dir, fls, fault)
               IN   RunOutcome(regs, <<>>, r.dirExists, r.files,
                            <<Invoked("CreateMigrationFile", name)>>,
                            IF r.ret # Nil
                            THEN Fatal("Failed to create migration file: %v", r.ret)
                            ELSE NoFatal)
          [] OTHER ->
               RunOutcome(regs, <<>>, dir, fls, <<>>,
                   Fatal("Invalid command. Use -up, -down, or -create", Nil))
    ELSE RunOutcome(regs, <<>>, dir, fls, <<>>, NoFatal)

\* "sort": no -create-tx case.
Run_sort(args, regs, db, dir, fls, t, engineResult, fault) ==
    IF Len(args) > 1 THEN
        CASE args[2] = CmdUp ->
               LET r == MigrateUp_sort(regs, db, engineResult)
               IN  RunOutcome(r.regs, r.calls, dir, fls, <<Invoked("MigrateUp", <<>>)>>,
                       IF r.ret # Nil THEN Fatal("Migration failed: %v", r.ret) ELSE NoFatal)
          [] args[2] = CmdDown ->
               LET r == MigrateDown_sort(regs, db, engineResult)
               IN  RunOutcome(r.regs, r.calls, dir, fls, <<Invoked("MigrateDown", <<>>)>>,
                       IF r.ret # Nil THEN Fatal("Rollback failed: %v", r.ret) ELSE NoFatal)
          [] args[2] = CmdCreate ->
               IF Len(args) < 3
               THEN RunOutcome(regs, <<>>, dir, fls, <<>>,
                        Fatal("Please provide a name for the migration", Nil))
               ELSE LET r == CreateMigrationFile_sort(args[3], t, dir, fls, fault)
                    IN  RunOutcome(regs, <<>>, r.dirExists, r.files,
                            <<Invoked("CreateMigrationFile", args[3])>>,
                            IF r.ret # Nil
                            THEN Fatal("Failed to create migration file: %v", r.ret)
                            ELSE NoFatal)
          [] OTHER ->
               RunOutcome(regs, <<>>, dir, fls, <<>>,
                   Fatal("Invalid command. Use -up, -down, or -create", Nil))
    ELSE RunOutcome(regs, <<>>, dir, fls, <<>>, NoFatal)

\* "inj": the dispatch at the end of NewMigrationTool.
Run_inj(args, regs, db, dir, fls, t, engineResult, fault) ==
    IF Len(args) > 1 THEN
        CASE args[2] = CmdUp ->
               LET r == MigrateUp_inj(regs, db, engineResult)
               IN  RunOutcome(r.regs, r.calls, dir, fls, <<Invoked("MigrateUp", <<>>)>>,
                       IF r.ret # Nil THEN Fatal("Migration failed: %v", r.ret) ELSE NoFatal)
          [] args[2] = CmdDown ->
               LET r == MigrateDown_inj(regs, db, engineResult)
               IN  RunOutcome(r.regs, r.calls, dir, fls, <<Invoked("MigrateDown", <<>>)>>,
                       IF r.ret # Nil THEN Fatal("Rollback failed: %v", r.ret) ELSE NoFatal)
          [] args[2] = CmdCreate ->
               IF Len(args) < 3
               THEN RunOutcome(regs, <<>>, dir, fls, <<>>,
                        Fatal("Please provide a name for the migration", Nil))
               ELSE LET r == CreateMigrationFile_inj(args[3], t, dir, fls, fault)
                    IN  RunOutcome(regs, <<>>, r.dirExists, r.files,
                            <<Invoked("CreateMigrationFile", args[3])>>,
                            IF r.ret # Nil
                            THEN Fatal("Failed to create migration file: %v", r.ret)
                            ELSE NoFatal)
          [] OTHER ->
               RunOutcome(regs, <<>>, dir, fls, <<>>,
                   Fatal("Invalid command. Use -up, -down, or -create", Nil))
    ELSE RunOutcome(regs, <<>>, dir, fls, <<>>, NoFatal)

----------------------------------------------------------------------------
(* The process: its state and the calls made on the package *)

Clients == {"migrator", "scaffolder"}

RECURSIVE SeqsUpTo(_, _)
SeqsUpTo(S, n) ==
    IF n = 0 THEN {<<>>}
    ELSE LET shorter == SeqsUpTo(S, n - 1)
         IN  shorter \cup {Append(q, x) : q \in {r \in shorter : Len(r) = n - 1}, x \in S}

\* The descriptors of the IDs ids, allocated in that order.
Descriptors(ids) == [i \in 1..Len(ids) |-> Descriptor(ids[i], i)]

\* The record of the last call of the package's API: the function called (op),
\* its arguments (dsn, args), the error it returned (ret), the tool it returned
\* (tool), the operations it dispatched to (invoked), the fatal message if it
\* ended the process (fatal), the engine calls it made (calls), the filename it
\* targeted (filename), what that file held before the call (prior: <<>> when it
\* did not exist), the filesystem fault it met (fault) and the clock at the
\* call (at).
NoCall ==
    [op |-> "start", dsn |-> <<>>, args |-> <<>>, ret |-> Nil, tool |-> <<>>,
     invoked |-> <<>>, fatal |-> NoFatal, calls |-> <<>>, filename |-> <<>>,
     prior |-> <<>>, fault |-> "none", at |-> 0]

\* The content of file f, as a sequence: <<>> when there is no such file.
Prior(fls, f) == IF f \in DOMAIN fls THEN <<fls[f]>> ELSE <<>>

\* log.Fatal ends the process.
ProcAfter(fatal) == IF fatal = NoFatal THEN "running" ELSE "exited"

\* The registrations made before the first call of main: the list the "inj"
\* version is handed by its caller, and, in a program that only scaffolds, the
\* registrations its init functions made (none, or versions "2" and "10" in that
\* order, which neither sort order leaves in place together with the other).
Preregistered(v, c) ==
    IF c = "scaffolder" THEN {<<>>, << <<"2">>, <<"1", "0">> >>}
    ELSE IF v = "inj" THEN SeqsUpTo(IDs, MaxInjected)
    ELSE {<<>>}

Init ==
    /\ variant \in Variants
    /\ client \in Clients
    /\ regLog \in Preregistered(variant, client)
    /\ registeredMigrations = Descriptors(regLog)
    /\ migrated = FALSE
    /\ once = FALSE
    /\ instance = <<>>
    /\ dbOpens = <<>>
    /\ dirExists = FALSE
    /\ files = <<>>
    /\ now = 0
    /\ proc = "running"
    /\ last = NoCall

\* The engine results and filesystem faults that the commands of a program of
\* kind c can meet: a migrator never touches the filesystem, a scaffolder never
\* reaches the engine.
EngineInputs(c) == IF c = "migrator" THEN EngineResults ELSE {Nil}
FaultInputs(c) == IF c = "scaffolder" THEN Faults ELSE {"none"}

\* The package's methods need the tool NewMigrationTool returned.
HasTool == variant \in {"tx", "sort"} /\ instance # <<>>

\* An init function of the importing program registers a migration.
DoRegisterMigration ==
    /\ proc = "running"
    /\ client = "migrator"
    /\ variant \in {"tx", "sort"}
    /\ Len(regLog) < MaxRegistered
    /\ \E id \in IDs :
        /\ registeredMigrations' =
              (IF variant = "tx"
               THEN RegisterMigration(registeredMigrations, id, Len(regLog) + 1)
               ELSE RegisterMigration_sort(registeredMigrations, id, Len(regLog) + 1))
        /\ regLog' = Append(regLog, id)
        /\ last' = [NoCall EXCEPT !.op = "RegisterMigration", !.args = <<id>>]
    /\ UNCHANGED <<variant, client, migrated, once, instance, dbOpens, dirExists, files, now, proc>>

\* NewMigrationTool(dsn) of the singleton versions.
DoNewMigrationTool ==
    /\ proc = "running"
    /\ variant \in {"tx", "sort"}
    /\ \E dsn \in DSNs, connectErr \in ConnectResults :
        LET r == IF variant = "tx"
                 THEN NewMigrationTool(dsn, once, instance, dbOpens, connectErr)
                 ELSE NewMigrationTool_sort(dsn, once, instance, dbOpens, connectErr)
        IN  /\ once' = r.once
            /\ instance' = r.instance
            /\ dbOpens' = r.dbOpens
            /\ proc' = ProcAfter(r.fatal)
            /\ last' = [NoCall EXCEPT !.op = "NewMigrationTool", !.dsn = dsn,
                                         !.tool = IF r.fatal = NoFatal THEN r.instance
                                                  ELSE <<>>,
                                         !.fatal = r.fatal]
    /\ UNCHANGED <<variant, client, migrated, registeredMigrations, regLog, dirExists, files, now>>

\* m.MigrateUp()
DoMigrateUp ==
    /\ proc = "running"
    /\ client = "migrator"
    /\ HasTool
    /\ \E engineResult \in EngineResults :
        LET r == IF variant = "tx"
                 THEN MigrateUp(registeredMigrations, instance[1].db, engineResult)
                 ELSE MigrateUp_sort(registeredMigrations, instance[1].db, engineResult)
        IN  /\ registeredMigrations' = r.regs
            /\ last' = [NoCall EXCEPT !.op = "MigrateUp", !.ret = r.ret, !.calls = r.calls]
    /\ migrated' = TRUE
    /\ UNCHANGED <<variant, client, regLog, once, instance, dbOpens, dirExists, files, now,
                   proc>>

\* m.MigrateDown()
DoMigrateDown ==
    /\ proc = "running"
    /\ client = "migrator"
    /\ HasTool
    /\ \E engineResult \in EngineResults :
        LET r == IF variant = "tx"
                 THEN MigrateDown(registeredMigrations, instance[1].db, engineResult)
                 ELSE MigrateDown_sort(registeredMigrations, instance[1].db, engineResult)
        IN  /\ registeredMigrations' = r.regs
            /\ last' = [NoCall EXCEPT !.op = "MigrateDown", !.ret = r.ret, !.calls = r.calls]
    /\ migrated' = TRUE
    /\ UNCHANGED <<variant, client, regLog, once, instance, dbOpens, dirExists, files, now,
                   proc>>

\* m.CreateMigrationFile(name)
DoCreateMigrationFile ==
    /\ proc = "running"
    /\ client = "scaffolder"
    /\ HasTool
    /\ \E name \in Names, fault \in Faults :
        LET r == IF variant = "tx"
                 THEN CreateMigrationFile(name, now, dirExists, files, fault)
                 ELSE CreateMigrationFile_sort(name, now, dirExists, files, fault)
        IN  /\ dirExists' = r.dirExists
            /\ files' = r.files
            /\ last' = [NoCall EXCEPT !.op = "CreateMigrationFile", !.args = <<name>>,
                                         !.ret = r.ret, !.filename = r.filename,
                                         !.prior = Prior(files, r.filename),
                                         !.fault = fault, !.at = now]
    /\ UNCHANGED <<variant, client, migrated, registeredMigrations, regLog, once, instance, dbOpens,
                   now, proc>>

\* m.CreateTransactionMigrationFile(name), which only the "tx" version has.
DoCreateTransactionMigrationFile ==
    /\ proc = "running"
    /\ client = "scaffolder"
    /\ HasTool
    /\ variant = "tx"
    /\ \E name \in Names, fault \in Faults :
        LET r == CreateTransactionMigrationFile(name, now, dirExists, files, fault)
        IN  /\ dirExists' = r.dirExists
            /\ files' = r.files
            /\ last' = [NoCall EXCEPT !.op = "CreateTransactionMigrationFile",
                                         !.args = <<name>>, !.ret = r.ret,
                                         !.filename = r.filename,
                                         !.prior = Prior(files, r.filename),
                                         !.fault = fault, !.at = now]
    /\ UNCHANGED <<variant, client, migrated, registeredMigrations, regLog, once, instance, dbOpens,
                   now, proc>>

\* m.Run(args)
DoRun ==
    /\ proc = "running"
    /\ HasTool
    /\ \E args \in ArgLists(client), engineResult \in EngineInputs(client),
          fault \in FaultInputs(client) :
        LET db == instance[1].db
            r == IF variant = "tx"
                 THEN Run(args, registeredMigrations, db, dirExists, files, now,
                          engineResult, fault)
                 ELSE Run_sort(args, registeredMigrations, db, dirExists, files, now,
                               engineResult, fault)
        IN  /\ registeredMigrations' = r.regs
            /\ dirExists' = r.dirExists
            /\ files' = r.files
            /\ proc' = ProcAfter(r.fatal)
            /\ last' = [NoCall EXCEPT !.op = "Run", !.args = args, !.invoked = r.invoked,
                                         !.fatal = r.fatal, !.calls = r.calls]
    /\ migrated' = (migrated \/ \E i \in DOMAIN last'.invoked :
                                  last'.invoked[i].op \in {"MigrateUp", "MigrateDown"})
    /\ UNCHANGED <<variant, client, regLog, once, instance, dbOpens, now>>

\* NewMigrationTool(dsn, registeredMigrations, args) of the "inj" version: connect,
\* build a tool, dispatch on args.
DoNewMigrationTool_inj ==
    /\ proc = "running"
    /\ variant = "inj"
    /\ Len(dbOpens) < MaxOpens
    /\ \E dsn \in DSNs, connectErr \in ConnectResults, args \in ArgLists(client),
          engineResult \in EngineInputs(client), fault \in FaultInputs(client) :
        LET n == NewMigrationTool_inj(dsn, once, instance, dbOpens, connectErr)
            r == IF n.fatal # NoFatal
                 THEN RunOutcome(registeredMigrations, <<>>, dirExists, files, <<>>, n.fatal)
                 ELSE Run_inj(args, registeredMigrations, n.instance[1].db, dirExists,
                              files, now, engineResult, fault)
        IN  /\ dbOpens' = n.dbOpens
            /\ registeredMigrations' = r.regs
            /\ dirExists' = r.dirExists
            /\ files' = r.files
            /\ proc' = ProcAfter(r.fatal)
            /\ last' = [NoCall EXCEPT !.op = "NewMigrationTool", !.dsn = dsn,
                                         !.args = args, !.invoked = r.invoked,
                                         !.fatal = r.fatal, !.calls = r.calls]
    /\ migrated' = (migrated \/ \E i \in DOMAIN last'.invoked :
                                  last'.invoked[i].op \in {"MigrateUp", "MigrateDown"})
    /\ UNCHANGED <<variant, client, regLog, once, instance, now>>

\* A second passes.
Tick ==
    /\ proc = "running"
    /\ client = "scaffolder"
    /\ now < MaxClock
    /\ now' = now + 1
    /\ UNCHANGED <<variant, client, migrated, registeredMigrations, regLog, once, instance, dbOpens,
                   dirExists, files, proc, last>>

Next ==
    \/ DoRegisterMigration
    \/ DoNewMigrationTool
    \/ DoMigrateUp
    \/ DoMigrateDown
    \/ DoCreateMigrationFile
    \/ DoCreateTransactionMigrationFile
    \/ DoRun
    \/ DoNewMigrationTool_inj
    \/ Tick

Spec == Init /\ [][Next]_vars

----------------------------------------------------------------------------
(* Properties *)

\* The engine calls made by the last call of the package's API.
LastEngineCalls == {last.calls[i] : i \in DOMAIN last.calls}

\* m holds every registered descriptor exactly once.
IsFullRegistry(m) ==
    /\ Len(m) = Len(regLog)
    /\ {m[k] : k \in DOMAIN m} = {Descriptor(regLog[i], i) : i \in DOMAIN regLog}

\* m is ascending by ID, descriptors of equal ID in registration order.
IsAscendingStable(m) ==
    \A j, k \in DOMAIN m : j < k =>
        /\ ~StrLess(m[k].ID, m[j].ID)
        /\ (m[j].ID = m[k].ID => m[j].ptr < m[k].ptr)

\* m is descending by ID.
IsDescending(m) ==
    \A j, k \in DOMAIN m : j < k => ~StrLess(m[j].ID, m[k].ID)

ConnectFailed == "Failed to connect to the database: %v"

\* The calls that dispatch on an argument vector: Run, and in the "inj" version
\* NewMigrationTool once it is connected.
Dispatched ==
    \/ last.op = "Run"
    \/ variant = "inj" /\ last.op = "NewMigrationTool" /\ last.fatal.msg # ConnectFailed

\* The operations the last call dispatched to.
InvokedOps == {last.invoked[i].op : i \in DOMAIN last.invoked}

\* C3: with nothing registered MigrateUp and MigrateDown return nil and make no
\* engine call (directly or through the dispatcher, which then ends normally);
\* every engine call is handed at least one registered migration.
C3_EmptyRegistryNoEngine ==
    /\ (Len(regLog) = 0 /\ last.op \in {"MigrateUp", "MigrateDown"})
          => (last.ret = Nil /\ last.calls = <<>>)
    /\ (Len(regLog) = 0 /\ Dispatched /\ InvokedOps \cap {"MigrateUp", "MigrateDown"} # {})
          => (last.calls = <<>> /\ last.fatal = NoFatal /\ proc = "running")
    /\ \A c \in LastEngineCalls : Len(regLog) > 0 /\ c.migrations # <<>>

\* MigrateDown was called on the tool with nothing registered.
C3_Witness ==
    /\ last.op = "MigrateDown"
    /\ instance # <<>>
    /\ Len(regLog) = 0
    /\ last.ret = Nil

\* The singleton property of NewMigrationTool: at most one connection is opened,
\* the instance is the tool built on it with the fixed options, and every call
\* that returns, returns that instance.
IsSingleton ==
    /\ Len(dbOpens) <= 1
    /\ instance # <<>> =>
          /\ Len(dbOpens) = 1
          /\ instance[1] = MigrationTool(Open(dbOpens[1], 1), Options)
    /\ (last.op = "NewMigrationTool" /\ last.fatal = NoFatal) =>
          (instance # <<>> /\ last.tool = instance)

DispatchesAsDocumented(hasTx) ==
    LET args == last.args
        cmd == IF Len(args) > 1 THEN args[2] ELSE <<>>
    IN  /\ Len(last.invoked) <= 1
        /\ cmd = CmdUp =>
              /\ last.invoked = <<Invoked("MigrateUp", <<>>)>>
              /\ \A c \in LastEngineCalls : c.op = "Migrate"
        /\ cmd = CmdDown =>
              /\ last.invoked = <<Invoked("MigrateDown", <<>>)>>
              /\ \A c \in LastEngineCalls : c.op = "RollbackLast"
        /\ (cmd = CmdCreate /\ Len(args) >= 3) =>
              /\ last.invoked = <<Invoked("CreateMigrationFile", args[3])>>
              /\ last.calls = <<>>
        /\ (cmd = CmdCreateTx /\ Len(args) >= 3) =>
              /\ last.calls = <<>>
              /\ IF hasTx
                 THEN last.invoked = <<Invoked("CreateTransactionMigrationFile", args[3])>>
                 ELSE last.invoked = <<>> /\ proc = "exited"
        /\ cmd \notin {CmdUp, CmdDown, CmdCreate, CmdCreateTx} => last.invoked = <<>>

MissingName == {<<Prog, CmdCreate>>, <<Prog, CmdCreateTx>>}

\* The messages the versions end the process with on a create command they
\* cannot run.
UsageMessages ==
    {"Please provide a name for the migration",
     "Please provide a name for the transaction migration",
     "Invalid command. Use -up, -down, or -create"}

\* C6: a dispatch of -create or -create-tx without a name ends the process with a
\* usage message, having invoked nothing and leaving the directory and every file
\* as they were.
C6_MissingNameFatalBeforeFiles ==
    [][(last'.args \in MissingName
          /\ (last'.op = "Run"
                \/ (variant = "inj" /\ last'.op = "NewMigrationTool"
                      /\ last'.fatal.msg # ConnectFailed)))
       => /\ proc' = "exited"
          /\ last'.fatal.msg \in UsageMessages
          /\ last'.invoked = <<>>
          /\ dirExists' = dirExists
          /\ files' = files]_vars

\* Run -create-tx without a name ended the process while a file written earlier
\* is still there.
C6_Witness ==
    /\ last.op = "Run"
    /\ last.args = <<Prog, CmdCreateTx>>
    /\ proc = "exited"
    /\ files # <<>>

\* C7: as long as neither MigrateUp nor MigrateDown has been called, the registry
\* holds one entry per RegisterMigration call, in call order, whatever the IDs.
C7_RegisterAppends ==
    ~migrated => registeredMigrations = Descriptors(regLog)

\* Three registrations, two of one ID and one of the empty ID, all kept.
C7_Witness ==
    /\ variant = "tx"
    /\ ~migrated
    /\ Len(regLog) = 3
    /\ regLog[1] = regLog[3]
    /\ regLog[2] = <<>>
    /\ Len(registeredMigrations) = 3

\* C8: an error of the engine is what MigrateUp / MigrateDown return, unchanged;
\* the dispatcher then ends the process with a fatal message carrying that error.
C8_EngineErrorPropagates ==
    \A c \in LastEngineCalls : c.result # Nil =>
        IF last.op \in {"MigrateUp", "MigrateDown"}
        THEN last.ret = c.result
        ELSE /\ last.fatal # NoFatal
             /\ last.fatal.err = c.result
             /\ last.fatal.msg \in {"Migration failed: %v", "Rollback failed: %v"}
             /\ proc = "exited"

\* Run -down met an engine error and ended the process with it.
C8_Witness ==
    /\ last.op = "Run"
    /\ last.args = <<Prog, CmdDown>>
    /\ \E c \in LastEngineCalls : c.result = "engineErr2"
    /\ last.fatal.err = "engineErr2"
    /\ proc = "exited"

\* The number a sequence of digit characters spells.
RECURSIVE Value(_)
Value(ds) ==
    IF ds = <<>> THEN 0
    ELSE 10 * Value(SubSeq(ds, 1, Len(ds) - 1))
         + (CHOOSE d \in 0..9 : Digit[d + 1] = ds[Len(ds)])

DigitChars == {Digit[i] : i \in DOMAIN Digit}

\* f is <14 digits spelling the time tm>_<name, each space an underscore>.go
IsScaffoldName(f, name, tm) ==
    /\ Len(f) = 14 + 1 + Len(name) + 3
    /\ \A i \in 1..14 : f[i] \in DigitChars
    /\ Value(SubSeq(f, 1, 4)) = tm.year
    /\ Value(SubSeq(f, 5, 6)) = tm.month
    /\ Value(SubSeq(f, 7, 8)) = tm.day
    /\ Value(SubSeq(f, 9, 10)) = tm.hour
    /\ Value(SubSeq(f, 11, 12)) = tm.minute
    /\ Value(SubSeq(f, 13, 14)) = tm.second
    /\ f[15] = "_"
    /\ \A i \in 1..Len(name) : f[15 + i] = (IF name[i] = " " THEN "_" ELSE name[i])
    /\ SubSeq(f, 16 + Len(name), Len(f)) = <<".", "g", "o">>

\* The names the filename is computed for beyond those the calls are given: every
\* string of at most MaxNameLen characters among "a", " ", "_" and "/".
MaxNameLen == 3
NameChars == {"a", " ", "_", "/"}

\* C9: the create functions target <timestamp>_<name>.go, the timestamp being the
\* 14 digits of the current time and every space of the name an underscore, and
\* the file they write carries that timestamp as the migration ID.
C9_ScaffoldFilename ==
    /\ last.op \in {"CreateMigrationFile", "CreateTransactionMigrationFile"} =>
          /\ IsScaffoldName(last.filename, last.args[1], TimeAt(last.at))
          /\ last.ret = Nil =>
                /\ last.filename \in DOMAIN files
                /\ files[last.filename].ID = SubSeq(last.filename, 1, 14)
    /\ last.op = "start" =>
          \A name \in SeqsUpTo(NameChars, MaxNameLen) :
              IsScaffoldName(Filename(Format(TimeAt(now)), name), name, TimeAt(now))

\* CreateTransactionMigrationFile("a b") wrote 20240803130000_a_b.go, one second
\* after the start.
C9_Witness ==
    /\ last.op = "CreateTransactionMigrationFile"
    /\ last.args = <<<<"a", " ", "b">>>>
    /\ last.ret = Nil
    /\ last.at = 1
    /\ last.filename = <<"2", "0", "2", "4", "0", "8", "0", "3", "1", "3", "0", "0", "0", "0",
                         "_", "a", "_", "b", ".", "g", "o">>
    /\ files[last.filename].ID = SubSeq(last.filename, 1, 14)

\* The last call was a create function whose target was a file an earlier call
\* had written.
HitWrittenFile ==
    /\ last.op \in {"CreateMigrationFile", "CreateTransactionMigrationFile"}
    /\ last.prior # <<>>
    /\ last.prior # <<EmptyFile>>

\* The template a create function writes.
TemplateOf(op) ==
    IF op = "CreateMigrationFile" THEN "migrationTemplate" ELSE "transactionMigrationTemplate"

\* C10 as stated: a create call whose target was written by an earlier call
\* returns an error and leaves that file as it was.
C10_SecondCreateFails ==
    HitWrittenFile => (last.ret # Nil /\ Prior(files, last.filename) = last.prior)

\* C10 amended: a create call whose target was written by an earlier call is not
\* refused: os.Create truncates the file.  Unless the filesystem fails, the call
\* returns nil and the file holds the second call's template and timestamp; if
\* the write fails the file is left empty; only if the directory or the file
\* cannot be opened is the earlier content kept.
C10_SecondCreateOverwrites ==
    HitWrittenFile =>
        /\ last.fault = "none" =>
              /\ last.ret = Nil
              /\ files[last.filename]
                    = Sprintf(TemplateOf(last.op), SubSeq(last.filename, 1, 14))
        /\ last.fault = "write" =>
              (last.ret = "writeErr" /\ files[last.filename] = EmptyFile)
        /\ last.fault \in {"mkdir", "create"} =>
              (last.ret # Nil /\ <<files[last.filename]>> = last.prior)

\* CreateTransactionMigrationFile replaced a file CreateMigrationFile had written
\* in the same second under the same name.
C10_Witness ==
    /\ last.op = "CreateTransactionMigrationFile"
    /\ last.ret = Nil
    /\ last.prior = <<Sprintf("migrationTemplate", SubSeq(last.filename, 1, 14))>>
    /\ files[last.filename] # last.prior[1]

\* The number of times descriptor d occurs in m.
Count(m, d) == Cardinality({k \in DOMAIN m : m[k] = d})

\* m and n hold the same descriptors, each the same number of times.
SameMultiset(m, n) ==
    \A d \in {m[k] : k \in DOMAIN m} \cup {n[k] : k \in DOMAIN n} :
        Count(m, d) = Count(n, d)

CreateOps == {"CreateMigrationFile", "CreateTransactionMigrationFile"}

\* The last call of the package's API was a create operation, called directly or
\* dispatched to.
CreateCalled ==
    \/ last.op \in CreateOps
    \/ \E i \in DOMAIN last.invoked : last.invoked[i].op \in CreateOps

\* C11: whatever sequence of RegisterMigration, MigrateUp and MigrateDown calls
\* the process has made, the registry holds exactly the registered descriptors,
\* each once (MigrateUp and MigrateDown may reorder it but add, drop and
\* duplicate nothing), and a step that calls a create operation leaves the
\* registry as it was, order included.
C11_RegistryMultisetPreserved ==
    /\ [](SameMultiset(registeredMigrations, Descriptors(regLog)))
    /\ [][CreateCalled' => registeredMigrations' = registeredMigrations]_vars

\* Two migrations were registered under one ID, a sort moved an entry, and a
\* third registration followed it: the registry is no longer in registration
\* order and still holds all three.
C11_Witness ==
    /\ variant = "sort"
    /\ migrated
    /\ last.op = "RegisterMigration"
    /\ Len(regLog) = 3
    /\ \E i, j \in DOMAIN regLog : i < j /\ regLog[i] = regLog[j]
    /\ Len(registeredMigrations) = 3
    /\ registeredMigrations # Descriptors(regLog)

====
